---- MODULE Spec2Model ----
(***************************************************************************)
(* chatlyzer: the analysis pipeline of src/index.ts (base variant) and     *)
(* src/chat.ts (extended variant, findPeakTime also reports an average).   *)
(*                                                                         *)
(* main() loads the export, runs analyzeChat (one forEach callback per     *)
(* message), takes messages.length as the grand total, runs                *)
(* calculatePercentages and findPeakTime and prints the report.            *)
(*                                                                         *)
(* Representation of JavaScript values:                                    *)
(*   - an absent optional field is Undefined;                              *)
(*   - date_unixtime and the hour keys of timeStats are strings, kept as   *)
(*     sequences of one-character strings so that parseInt and the         *)
(*     number-to-key conversion are computed;                              *)
(*   - x.toFixed(2) is kept as the integer number of hundredths it prints  *)
(*     ("33.33%" is 3333), NaN and Infinity as the values NaN, Infinity.   *)
(***************************************************************************)
EXTENDS Integers, Sequences, FiniteSets, TLC

VARIABLES variant, messages, idx, userStats, userNames, timeStats, pc,
          totalMessages, userPercentages, peak, report

vars == <<variant, messages, idx, userStats, userNames, timeStats, pc,
          totalMessages, userPercentages, peak, report>>

(***************************************************************************)
(* Bounds of the model.                                                    *)
(***************************************************************************)
MaxMessages == 3

(***************************************************************************)
(* JavaScript values.                                                      *)
(***************************************************************************)
Undefined == "<undefined>"

NaN == -1000001

Infinity == 1000002

\* !v for a value of type string | undefined
Falsy(v) == v = Undefined \/ v = ""

Digits == <<"0", "1", "2", "3", "4", "5", "6", "7", "8", "9">>

IsDigit(c) == \E d \in 1..10 : Digits[d] = c

DigitVal(c) == (CHOOSE d \in 1..10 : Digits[d] = c) - 1

RECURSIVE ParseDigits(_, _, _)
ParseDigits(s, k, acc) ==
  IF k > Len(s) \/ ~IsDigit(s[k]) THEN acc
  ELSE ParseDigits(s, k + 1, acc * 10 + DigitVal(s[k]))

\* parseInt(s): the value of the leading decimal digits, NaN when there is none
\* (the strings of the model carry no sign, white space or radix prefix)
parseInt(s) ==
  IF Len(s) = 0 \/ ~IsDigit(s[1]) THEN NaN ELSE ParseDigits(s, 1, 0)

RECURSIVE NumToDigits(_)
NumToDigits(n) ==
  IF n < 10 THEN <<Digits[n + 1]>>
  ELSE Append(NumToDigits(n \div 10), Digits[(n % 10) + 1])

\* the property key a number is converted to: String(n)
ToKey(n) == IF n = NaN THEN <<"N", "a", "N">> ELSE NumToDigits(n)

\* a key that is a canonical array index: Object.entries lists these first,
\* in ascending numeric order
IsIndexKey(k) == parseInt(k) # NaN /\ NumToDigits(parseInt(k)) = k

\* a * b on numbers, NaN propagating
Times(a, b) == IF a = NaN \/ b = NaN THEN NaN ELSE a * b

\* (num / den).toFixed(2), as hundredths; ties go to the larger value. The
\* quotients of the model are never within a floating-point error of a tie
\* that is not exact, so the integer rounding is the one toFixed prints.
toFixed(num, den) ==
  IF den = 0 THEN (IF num = 0 THEN NaN ELSE Infinity)
  ELSE (num * 200 + den) \div (2 * den)

\* ((count / denominator) * 100).toFixed(2) + "%"
Percentage(count, denominator) == toFixed(count * 100, denominator)

(***************************************************************************)
(* Date: local wall-clock weekday and hour of a millisecond timestamp.     *)
(***************************************************************************)
TzOffsetMs == 2 * 3600 * 1000

MsPerHour == 3600 * 1000

MsPerDay == 24 * MsPerHour

Weekdays == <<"Sunday", "Monday", "Tuesday", "Wednesday", "Thursday",
              "Friday", "Saturday">>

\* date.toLocaleString("en-US", { weekday: "long" }); 1970-01-01 is a Thursday
dayOfWeekOf(ms) ==
  IF ms = NaN THEN "Invalid Date"
  ELSE Weekdays[(((ms + TzOffsetMs) \div MsPerDay + 4) % 7) + 1]

\* date.getHours()
getHours(ms) ==
  IF ms = NaN THEN NaN ELSE ((ms + TzOffsetMs) % MsPerDay) \div MsPerHour

(***************************************************************************)
(* The input: jsonData.messages.                                           *)
(***************************************************************************)
Msg(id, name, photo, media, date) ==
  [from_id |-> id, from |-> name, photo |-> photo, media_type |-> media,
   date_unixtime |-> date]

\* Monday 10:00, Monday 14:00 and Tuesday 02:00 local time, and two strings
\* parseInt cannot read
TsMon10 == <<"3", "7", "4", "4", "0", "0">>
TsMon14 == <<"3", "8", "8", "8", "0", "0">>
TsTue02 == <<"4", "3", "2", "0", "0", "0">>
TsBad == <<"a", "b", "c">>

MessagePool ==
  { Msg("u1", "Ann", "p1.jpg", Undefined, TsMon10),
    Msg("u1", Undefined, Undefined, Undefined, TsMon10),
    Msg("u1", "Anna", Undefined, "sticker", TsMon14),
    Msg("u1", "", Undefined, "voice_message", TsTue02),
    Msg("u2", "Bob", "p2.jpg", Undefined, TsMon14),
    Msg("u2", Undefined, "p3.jpg", "video_message", TsTue02),
    Msg("u2", Undefined, Undefined, "video_file", TsBad),
    Msg("u3", Undefined, Undefined, "animation", TsMon10),
    Msg(Undefined, "Ghost", "p4.jpg", "sticker", TsTue02),
    Msg("", "Ghost", Undefined, "voice_message", TsMon10) }

RECURSIVE SeqsUpTo(_, _)
SeqsUpTo(S, n) ==
  IF n = 0 THEN {<<>>}
  ELSE LET shorter == SeqsUpTo(S, n - 1)
       IN shorter \cup {Append(s, m) : s \in shorter, m \in S}

(***************************************************************************)
(* analyzeChat                                                             *)
(***************************************************************************)
EmptyObject == <<>>

ZeroStats ==
  [messages |-> 0,
   media |-> [photos |-> 0, videoMessages |-> 0, videoFiles |-> 0,
              voice |-> 0, stickers |-> 0]]

MediaKinds == {"photos", "videoMessages", "videoFiles", "voice", "stickers"}

\* if (!userStats[id]) userStats[id] = { messages: 0, media: {...} }
LazyInit(stats, id) ==
  IF id \in DOMAIN stats THEN stats ELSE (id :> ZeroStats) @@ stats

IncMessagesOnCreation(s) == [s EXCEPT !.messages = 1]

IncMessagesMissing(s) == s

\* userStats[id].messages++
IncMessages(s) == [s EXCEPT !.messages = @ + 1]

\* the five independent media ifs
IncMedia(s, message) ==
  LET b(cond) == IF cond THEN 1 ELSE 0
  IN [s EXCEPT
        !.media.photos = @ + b(~Falsy(message.photo)),
        !.media.videoMessages = @ + b(message.media_type = "video_message"),
        !.media.videoFiles = @ + b(message.media_type = "video_file"),
        !.media.voice = @ + b(message.media_type = "voice_message"),
        !.media.stickers = @ + b(message.media_type = "sticker")]

UpdateNamesFirstWins(names, message) ==
  IF Falsy(message.from) \/ message.from_id \in DOMAIN names THEN names
  ELSE (message.from_id :> message.from) @@ names

\* if (message.from) userNames[id] = message.from
UpdateNames(names, message) ==
  IF Falsy(message.from) THEN names
  ELSE (message.from_id :> message.from) @@ names

DayIndex(ts, day) ==
  IF \E k \in 1..Len(ts) : ts[k].day = day
  THEN CHOOSE k \in 1..Len(ts) : ts[k].day = day
  ELSE 0

\* timeStats[dayOfWeek][hour] = (timeStats[dayOfWeek][hour] || 0) + 1, the
\* day's object created on demand; days keep their insertion order
UpdateTimeStats(ts, message) ==
  LET date == Times(parseInt(message.date_unixtime), 1000)
      dayOfWeek == dayOfWeekOf(date)
      hour == ToKey(getHours(date))
      ts1 == IF DayIndex(ts, dayOfWeek) = 0
             THEN Append(ts, [day |-> dayOfWeek, hours |-> EmptyObject])
             ELSE ts
      k == DayIndex(ts1, dayOfWeek)
      old == IF hour \in DOMAIN ts1[k].hours THEN ts1[k].hours[hour] ELSE 0
  IN [ts1 EXCEPT ![k].hours = (hour :> (old + 1)) @@ @]

NoSenderUndefinedOnly(message) == message.from_id = Undefined

\* if (!message.from_id) return
NoSender(message) == Falsy(message.from_id)

\* the forEach callback of analyzeChat, for one message
forEachCallback(message) ==
  IF NoSender(message)
  THEN UNCHANGED <<userStats, userNames, timeStats>>
  ELSE LET id == message.from_id
           created == LazyInit(userStats, id)
       IN /\ userStats' =
               [created EXCEPT ![id] = IncMedia(IncMessages(@), message)]
          /\ userNames' = UpdateNames(userNames, message)
          /\ timeStats' = UpdateTimeStats(timeStats, message)

(***************************************************************************)
(* calculatePercentages                                                    *)
(***************************************************************************)
UserPercentage(count, stats, total) == Percentage(count, stats.messages)

TotalPercentageOfUser(count, stats, total) ==
  Percentage(count, stats.messages)

TotalPercentage(count, stats, total) == Percentage(count, total)

calculatePercentages(stats, total) ==
  [user \in DOMAIN stats |->
     [total |-> Percentage(stats[user].messages, total),
      media |-> [kind \in MediaKinds |->
         [userPercentage |->
            UserPercentage(stats[user].media[kind], stats[user], total),
          totalPercentage |->
            TotalPercentage(stats[user].media[kind], stats[user], total)]]]]

(***************************************************************************)
(* findPeakTime                                                            *)
(***************************************************************************)
RECURSIVE SortedIndexKeys(_)
SortedIndexKeys(keys) ==
  IF keys = {} THEN <<>>
  ELSE LET least == CHOOSE k \in keys :
                      \A other \in keys : parseInt(k) <= parseInt(other)
       IN <<least>> \o SortedIndexKeys(keys \ {least})

RECURSIVE SetToSeq(_)
SetToSeq(S) ==
  IF S = {} THEN <<>>
  ELSE LET x == CHOOSE y \in S : TRUE IN <<x>> \o SetToSeq(S \ {x})

\* Object.entries(hours): index keys ascending, then the other keys (the only
\* one getHours can produce is "NaN")
HourKeys(hours) ==
  SortedIndexKeys({k \in DOMAIN hours : IsIndexKey(k)})
    \o SetToSeq({k \in DOMAIN hours : ~IsIndexKey(k)})

RECURSIVE Entries(_, _)
Entries(ts, d) ==
  IF d > Len(ts) THEN <<>>
  ELSE LET keys == HourKeys(ts[d].hours)
       IN [j \in 1..Len(keys) |->
             [day |-> ts[d].day, hour |-> keys[j],
              count |-> ts[d].hours[keys[j]]]]
          \o Entries(ts, d + 1)

PeakReplacesOnTie(count, maxMessages) == count >= maxMessages

\* if (count > maxMessages)
PeakReplaces(count, maxMessages) == count > maxMessages

RECURSIVE PeakScan(_, _, _)
PeakScan(entries, k, acc) ==
  IF k > Len(entries) THEN acc
  ELSE PeakScan(entries, k + 1,
         IF PeakReplaces(entries[k].count, acc.maxMessages)
         THEN [peakDay |-> entries[k].day,
               peakHour |-> parseInt(entries[k].hour),
               maxMessages |-> entries[k].count]
         ELSE acc)

\* src/index.ts
findPeakTime(ts) ==
  PeakScan(Entries(ts, 1), 1,
           [peakDay |-> "", peakHour |-> -1, maxMessages |-> 0])

TotalDaysOfHistogram(ts, peakDay) == Len(ts)

\* const totalDays = Object.keys(timeStats[peakDay]).length
TotalDays(ts, peakDay) == Cardinality(DOMAIN ts[DayIndex(ts, peakDay)].hours)

\* src/chat.ts: Object.keys(timeStats[peakDay]) throws a TypeError when
\* timeStats has no entry for peakDay
PeakThrows(ts) == DayIndex(ts, findPeakTime(ts).peakDay) = 0

findPeakTimeChat(ts) ==
  LET p == findPeakTime(ts)
  IN [peakDay |-> p.peakDay, peakHour |-> p.peakHour,
      maxMessages |-> p.maxMessages,
      averageMessages |-> toFixed(p.maxMessages, TotalDays(ts, p.peakDay))]

(***************************************************************************)
(* main                                                                    *)
(***************************************************************************)
NoResult == [returned |-> FALSE]

\* const username = userNames[user] || "Unknown"
UserName(names, user) ==
  IF user \in DOMAIN names /\ ~Falsy(names[user]) THEN names[user]
  ELSE "Unknown"

Init ==
  /\ variant \in {"index", "chat"}
  /\ messages \in SeqsUpTo(MessagePool, MaxMessages)
  /\ idx = 0
  /\ userStats = EmptyObject
  /\ userNames = EmptyObject
  /\ timeStats = <<>>
  /\ pc = "analyzeChat"
  /\ totalMessages = 0
  /\ userPercentages = EmptyObject
  /\ peak = NoResult
  /\ report = EmptyObject

\* one iteration of jsonData.messages.forEach
AnalyzeMessage ==
  /\ pc = "analyzeChat"
  /\ idx < Len(messages)
  /\ forEachCallback(messages[idx + 1])
  /\ idx' = idx + 1
  /\ UNCHANGED <<variant, messages, pc, totalMessages, userPercentages,
                 peak, report>>

\* analyzeChat returns; totalMessages = messages.length; calculatePercentages
CalculatePercentages ==
  /\ pc = "analyzeChat"
  /\ idx = Len(messages)
  /\ totalMessages' = Len(messages)
  /\ userPercentages' = calculatePercentages(userStats, Len(messages))
  /\ pc' = "findPeakTime"
  /\ UNCHANGED <<variant, messages, idx, userStats, userNames, timeStats,
                 peak, report>>

FindPeakTime ==
  /\ pc = "findPeakTime"
  /\ variant = "index"
  /\ peak' = findPeakTime(timeStats)
  /\ pc' = "report"
  /\ UNCHANGED <<variant, messages, idx, userStats, userNames, timeStats,
                 totalMessages, userPercentages, report>>

FindPeakTimeChat ==
  /\ pc = "findPeakTime"
  /\ variant = "chat"
  /\ ~PeakThrows(timeStats)
  /\ peak' = findPeakTimeChat(timeStats)
  /\ pc' = "report"
  /\ UNCHANGED <<variant, messages, idx, userStats, userNames, timeStats,
                 totalMessages, userPercentages, report>>

\* the uncaught TypeError ends the program before anything is printed
FindPeakTimeChatThrows ==
  /\ pc = "findPeakTime"
  /\ variant = "chat"
  /\ PeakThrows(timeStats)
  /\ pc' = "TypeError"
  /\ UNCHANGED <<variant, messages, idx, userStats, userNames, timeStats,
                 totalMessages, userPercentages, peak, report>>

Report ==
  /\ pc = "report"
  /\ report' = [user \in DOMAIN userStats |-> UserName(userNames, user)]
  /\ pc' = "done"
  /\ UNCHANGED <<variant, messages, idx, userStats, userNames, timeStats,
                 totalMessages, userPercentages, peak>>

Next ==
  \/ AnalyzeMessage
  \/ CalculatePercentages
  \/ FindPeakTime
  \/ FindPeakTimeChat
  \/ FindPeakTimeChatThrows
  \/ Report

Spec == Init /\ [][Next]_vars

(***************************************************************************)
(* Vocabulary of the properties, stated on the input and the results.      *)
(***************************************************************************)
Absent(v) == v \in {Undefined, ""}

Abs(x) == IF x < 0 THEN -x ELSE x

RECURSIVE Sum(_)
Sum(f) ==
  IF DOMAIN f = {} THEN 0
  ELSE LET x == CHOOSE y \in DOMAIN f : TRUE
       IN f[x] + Sum([y \in DOMAIN f \ {x} |-> f[y]])

Analyzed == pc # "analyzeChat"

PeakReturned == pc \in {"report", "done"}

WithSender == {i \in 1..Len(messages) : ~Absent(messages[i].from_id)}

Senderless == {i \in 1..Len(messages) : Absent(messages[i].from_id)}

Senders == {messages[i].from_id : i \in WithSender}

MessagesSum == Sum([u \in DOMAIN userStats |-> userStats[u].messages])

Cells ==
  UNION {{<<d, k>> : k \in DOMAIN timeStats[d].hours} :
           d \in 1..Len(timeStats)}

CellCount(c) == timeStats[c[1]].hours[c[2]]

CellSum == Sum([c \in Cells |-> CellCount(c)])

KindCount(kind) == Sum([u \in DOMAIN userStats |-> userStats[u].media[kind]])

KindShareSum(kind) ==
  Sum([u \in DOMAIN userPercentages |->
         userPercentages[u].media[kind].totalPercentage])

\* the two-decimal value of count / total * 100, rounded half up
RoundedShare(count, total) == (count * 20000 + total) \div (2 * total)

Named(id) ==
  {i \in 1..Len(messages) :
     messages[i].from_id = id /\ ~Absent(messages[i].from)}

Last(S) == CHOOSE i \in S : \A j \in S : j <= i

(***************************************************************************)
(* C1: after analyzeChat has processed all messages, the 'messages'        *)
(* counters of userStats sum to the number of input messages that have a   *)
(* non-empty from_id.                                                      *)
(***************************************************************************)
C1_MessagesSumToSenderCount ==
  Analyzed => MessagesSum = Cardinality(WithSender)

C1_Witness ==
  /\ pc = "done"
  /\ Senderless # {}
  /\ \E u \in DOMAIN userStats : userStats[u].messages >= 2

(***************************************************************************)
(* C2: after analyzeChat, the timeStats cells sum to the number of input   *)
(* messages with a parseable timestamp, whether or not the message has a   *)
(* sender id.                                                              *)
(***************************************************************************)
C2_CellsSumToParseableTimestamps ==
  Analyzed =>
    CellSum = Cardinality({i \in 1..Len(messages) :
                             parseInt(messages[i].date_unixtime) # NaN})

(***************************************************************************)
(* C3: on an empty histogram findPeakTime returns the sentinel day "",     *)
(* hour -1, count 0 and raises no error, in both variants.                 *)
(***************************************************************************)
C3_EmptyHistogramGivesSentinel ==
  (pc \in {"report", "done", "TypeError"} /\ timeStats = <<>>) =>
    /\ pc # "TypeError"
    /\ peak.peakDay = ""
    /\ peak.peakHour = -1
    /\ peak.maxMessages = 0

(***************************************************************************)
(* C4: on a non-empty histogram findPeakTime returns the maximum cell      *)
(* value and a cell holding it, and among the cells holding the maximum    *)
(* the first in iteration order (days in insertion order, hours ascending  *)
(* within a day).                                                          *)
(***************************************************************************)
C4_PeakIsFirstMaximum ==
  (PeakReturned /\ timeStats # <<>>) =>
    LET pd == DayIndex(timeStats, peak.peakDay)
        ph == ToKey(peak.peakHour)
    IN /\ \A c \in Cells : CellCount(c) <= peak.maxMessages
       /\ pd # 0
       /\ ph \in DOMAIN timeStats[pd].hours
       /\ timeStats[pd].hours[ph] = peak.maxMessages
       /\ \A c \in Cells :
            CellCount(c) = peak.maxMessages =>
              \/ c[1] > pd
              \/ c[1] = pd /\ parseInt(c[2]) >= peak.peakHour

C4_Witness ==
  /\ pc = "done"
  /\ Len(timeStats) >= 2
  /\ Cardinality({c \in Cells : CellCount(c) = peak.maxMessages}) >= 2

(***************************************************************************)
(* C5: after any prefix of the input, every media counter of every user is *)
(* between 0 and that user's 'messages' counter.                           *)
(***************************************************************************)
C5_MediaWithinMessages ==
  \A u \in DOMAIN userStats : \A kind \in MediaKinds :
    /\ userStats[u].media[kind] >= 0
    /\ userStats[u].media[kind] <= userStats[u].messages

C5_Witness ==
  \E u \in DOMAIN userStats :
    /\ userStats[u].messages = 1
    /\ userStats[u].media.photos = 1
    /\ userStats[u].media.videoMessages = 1

(***************************************************************************)
(* C6, as stated: for each media kind the users' two-decimal               *)
(* totalPercentage values sum to the two-decimal share of the kind in the  *)
(* grand total.                                                            *)
(***************************************************************************)
C6_SharesSumToRoundedShare ==
  (Analyzed /\ totalMessages >= 1) =>
    \A kind \in MediaKinds :
      KindShareSum(kind) = RoundedShare(KindCount(kind), totalMessages)

(***************************************************************************)
(* C6, amended: for each media kind the users' two-decimal totalPercentage *)
(* values sum to the kind's share of the grand total up to rounding: the   *)
(* sum is within 0.005 per user of the exact share, hence within           *)
(* 0.005 * (number of users + 1) of the two-decimal share.                 *)
(***************************************************************************)
C6_SharesSumWithinRounding ==
  (Analyzed /\ totalMessages >= 1) =>
    \A kind \in MediaKinds :
      LET n == Cardinality(DOMAIN userStats)
          s == KindShareSum(kind)
          c == KindCount(kind)
      IN /\ DOMAIN userPercentages = DOMAIN userStats
         /\ 2 * Abs(s * totalMessages - 10000 * c) <= n * totalMessages
         /\ 2 * Abs(s - RoundedShare(c, totalMessages)) <= n + 1

C6_Witness ==
  /\ pc = "done"
  /\ totalMessages >= 1
  /\ \E kind \in MediaKinds :
       KindShareSum(kind) # RoundedShare(KindCount(kind), totalMessages)

(***************************************************************************)
(* C7: after analyzeChat, userNames[id] is the display name of the last    *)
(* message of that sender that carried a non-empty name; a sender whose    *)
(* messages never carried one has no entry and is reported as "Unknown".   *)
(***************************************************************************)
C7_LastNameWins ==
  Analyzed =>
    \A id \in Senders :
      IF Named(id) = {}
      THEN /\ id \notin DOMAIN userNames
           /\ pc = "done" => report[id] = "Unknown"
      ELSE /\ id \in DOMAIN userNames
           /\ userNames[id] = messages[Last(Named(id))].from
           /\ pc = "done" => report[id] = messages[Last(Named(id))].from

C7_Witness ==
  /\ pc = "done"
  /\ \E id \in Senders :
       /\ \E i, j \in Named(id) :
            i < j /\ messages[i].from # messages[j].from
       /\ \E k \in WithSender :
            /\ messages[k].from_id = id
            /\ k > Last(Named(id))

(***************************************************************************)
(* C8: in the extended variant the average is the peak count divided by    *)
(* the number of hour buckets of the peak day (printed with two decimals), *)
(* so it is at most the peak count and equals it when the peak day has a   *)
(* single bucket.                                                          *)
(***************************************************************************)
C8_AverageOverHourBuckets ==
  (variant = "chat" /\ PeakReturned) =>
    LET pd == DayIndex(timeStats, peak.peakDay)
        n == Cardinality({c \in Cells : c[1] = pd})
        avg == peak.averageMessages
    IN /\ n >= 1
       /\ 2 * Abs(avg * n - 100 * peak.maxMessages) <= n
       /\ avg <= 100 * peak.maxMessages
       /\ n = 1 => avg = 100 * peak.maxMessages

C8_Witness ==
  /\ variant = "chat"
  /\ pc = "done"
  /\ LET pd == DayIndex(timeStats, peak.peakDay)
     IN /\ Cardinality({c \in Cells : c[1] = pd}) = 2
        /\ Len(timeStats) # 2
        /\ peak.averageMessages < 100 * peak.maxMessages

(***************************************************************************)
(* C9: processing a message whose from_id is absent or empty leaves        *)
(* userStats, userNames and timeStats unchanged whatever its other fields  *)
(* are, and the message is still counted in the grand total.               *)
(***************************************************************************)
C9_SenderlessIsSkippedButCounted ==
  /\ [][(idx' = idx + 1 /\ Absent(messages[idx + 1].from_id)) =>
          UNCHANGED <<userStats, userNames, timeStats>>]_vars
  /\ [](Analyzed =>
          totalMessages = MessagesSum + Cardinality(Senderless))

C9_Witness ==
  /\ pc = "done"
  /\ DOMAIN userStats # {}
  /\ \E i \in Senderless :
       /\ messages[i].from_id = ""
       /\ ~Absent(messages[i].from)
       /\ messages[i].media_type = "voice_message"
  /\ \E i \in Senderless :
       /\ messages[i].from_id = Undefined
       /\ ~Absent(messages[i].photo)

(***************************************************************************)
(* C10: after any prefix every userStats entry has messages >= 1 and the   *)
(* grand total is at least the sum of the users' messages, so              *)
(* calculatePercentages never divides by zero.                             *)
(***************************************************************************)
C10_NoDivisionByZero ==
  /\ \A u \in DOMAIN userStats : userStats[u].messages >= 1
  /\ Len(messages) >= MessagesSum
  /\ Analyzed =>
       /\ totalMessages >= MessagesSum
       /\ \A u \in DOMAIN userPercentages :
            /\ totalMessages >= 1
            /\ userPercentages[u].total \notin {NaN, Infinity}
            /\ \A kind \in MediaKinds :
                 /\ userPercentages[u].media[kind].userPercentage
                      \notin {NaN, Infinity}
                 /\ userPercentages[u].media[kind].totalPercentage
                      \notin {NaN, Infinity}

C10_Witness ==
  /\ pc = "done"
  /\ Cardinality(DOMAIN userPercentages) >= 2
  /\ totalMessages > MessagesSum

====
